---- MODULE Spec2Model ----
(***************************************************************************)
(* CV creator pipeline: the client manager (clients.py), the six stage     *)
(* functions (nodes.py), the transition routers (edges.py), the compiled   *)
(* graph (agent.py) and the page handlers that invoke it (chat_app.py).    *)
(*                                                                         *)
(* Python values are written as strings: "ABSENT" is a key that is not in  *)
(* the state mapping, "None" is None, "" the empty text, "{}" the empty    *)
(* dict, "[]" the empty list, "0" the number zero.  Every other string is  *)
(* a non-empty (truthy) value.  The three integer ATS fields of the state  *)
(* are kept in scores, each as <<>> (absent) or <<n>>.                     *)
(***************************************************************************)
EXTENDS Integers, Sequences, FiniteSets, TLC

VARIABLES client_analyzer, client_generator, current_provider,
          ckpt, scores, pc, inv, ran, fn, upd, route, calls, raised, page,
          invocations, text, opinion

vars == <<client_analyzer, client_generator, current_provider,
          ckpt, scores, pc, inv, ran, fn, upd, route, calls, raised, page,
          invocations, text, opinion>>

\* driver invocations explored per session
MaxInvocations == 3

\* further invocations explored on a page that shows no results (a page
\* that was reset, or whose runs so far all ended in an exception)
MaxAfterReset == 1

clientVars == <<client_analyzer, client_generator, current_provider>>
callVars == <<fn, upd, route, calls, raised>>
atsVars == <<text, opinion>>

----------------------------------------------------------------------------
(* Values *)

Absent == "ABSENT"
NoneV == "None"

Falsy == {Absent, NoneV, "", "{}", "[]", "0"}

Truthy(v) == v \notin Falsy

Keys ==
  {"uploaded_resume", "job_description", "resume_analysis", "jd_analysis",
   "match_analysis", "match_percentage", "improved_cv", "final_cv",
   "changes_made", "user_feedback", "user_feedback_applied",
   "feedback_not_applied", "user_feedback_text", "final_match_percentage",
   "current_step", "error"}

EmptyState == [k \in Keys |-> Absent]

\* the integer fields of the state
NumKeys == {"ats_compliance_score", "final_ats_score", "ats_improvement"}

NoScores == [k \in NumKeys |-> <<>>]

NoUpdate == [k \in {} |-> Absent]

\* LangGraph LastValue channels: a returned key overwrites, the rest is kept.
Merge(state, update) ==
  [k \in Keys |-> IF k \in DOMAIN update THEN update[k] ELSE state[k]]

MergeNum(sc, num) ==
  [k \in NumKeys |-> IF k \in DOMAIN num THEN <<num[k]>> ELSE sc[k]]

StepOrder ==
  <<"upload", "resume_analyzed", "jd_analyzed", "match_analyzed",
    "cv_generated", "cv_finalized", "analysis_complete">>

StepTags == {StepOrder[i] : i \in 1..Len(StepOrder)}

Rank(step) ==
  IF step \in StepTags
  THEN CHOOSE i \in 1..Len(StepOrder) : StepOrder[i] = step
  ELSE 0

Stages ==
  {"analyze_resume", "analyze_jd", "match_analysis", "generate_cv",
   "apply_feedback", "final_analysis"}

----------------------------------------------------------------------------
(* clients.py *)

is_clients_initialized ==
  client_analyzer # NoneV /\ client_generator # NoneV

Providers == {"openai", "gemini"}

CtorOutcomes == {"ok", "analyzer_raises", "generator_raises"}

\* get_analyzer_client and get_generator_client raise "Clients not
\* initialized" when their field is None
get_analyzer_client_raises == client_analyzer = NoneV

get_generator_client_raises == client_generator = NoneV

\* DynamicLLMClient.initialize_clients: the two constructors run in order,
\* each assignment happens only if its constructor returned.

\* initialize_clients that drops both clients when a constructor fails
initialize_clients_reset_on_failure(provider, outcome) ==
  /\ client_analyzer' = IF outcome = "ok" THEN provider ELSE NoneV
  /\ client_generator' = IF outcome = "ok" THEN provider ELSE NoneV
  /\ current_provider' =
       IF outcome = "ok" THEN provider ELSE current_provider

initialize_clients(provider, outcome) ==
  /\ client_analyzer' =
       IF outcome = "analyzer_raises" THEN client_analyzer ELSE provider
  /\ client_generator' =
       IF outcome = "ok" THEN provider ELSE client_generator
  /\ current_provider' =
       IF outcome = "ok" THEN provider ELSE current_provider

----------------------------------------------------------------------------
(* document_parser.py: ATS compliance scoring *)

\* A text is represented by what the scorer measures on it: the number of
\* keyword groups found, the matches of the e-mail and phone patterns, the
\* non-blank lines, the bullet markers, table markup, an upper-case header
\* line, the distinct action verbs, the quantified-achievement matches, the
\* words, the vague words, the characters, encoding artifacts and whether
\* blank lines exceed 30% of the line breaks.
TextSpace ==
  [sections_found : {0, 2, 3, 4},
   email : BOOLEAN,
   phone : BOOLEAN,
   total_lines : {10, 40, 120},
   bullet_count : {2, 4, 10},
   tables : BOOLEAN,
   headers : BOOLEAN,
   unique_verbs : {3, 5, 8},
   quantified_count : {1, 3, 8},
   words : {50, 250},
   unprofessional_found : {0, 3},
   length : {300, 1500, 2500},
   encoding : BOOLEAN,
   spacing : BOOLEAN]

\* the text of Scenario A
ScenarioA ==
  [sections_found |-> 4, email |-> TRUE, phone |-> TRUE, total_lines |-> 40,
   bullet_count |-> 10, tables |-> FALSE, headers |-> TRUE,
   unique_verbs |-> 8, quantified_count |-> 8, words |-> 250,
   unprofessional_found |-> 0, length |-> 1500, encoding |-> FALSE,
   spacing |-> FALSE]

\* a text on which every measure is at its worst
WeakText ==
  [sections_found |-> 0, email |-> FALSE, phone |-> FALSE, total_lines |-> 120,
   bullet_count |-> 2, tables |-> TRUE, headers |-> FALSE,
   unique_verbs |-> 3, quantified_count |-> 1, words |-> 50,
   unprofessional_found |-> 3, length |-> 300, encoding |-> TRUE,
   spacing |-> TRUE]

\* measures on which two texts differ
Changed(t, b) == Cardinality({f \in DOMAIN t : t[f] # b[f]})

\* measures on which a scored text differs from Scenario A or the weak text
MaxChanged == 3

\* the texts scored directly
TextSet ==
  {t \in TextSpace :
     Changed(t, ScenarioA) <= MaxChanged \/ Changed(t, WeakText) <= MaxChanged}

\* the texts that travel through the pipeline, by name
TextOf(name) ==
  CASE name = "cvShort" -> ScenarioA
    [] name = "cvLong" ->
         [ScenarioA EXCEPT !.sections_found = 3, !.headers = FALSE,
                           !.quantified_count = 3, !.length = 2500]
    [] name = "cvGen" ->
         [ScenarioA EXCEPT !.unique_verbs = 5, !.length = 1800]
    [] name = "cvFin" ->
         [ScenarioA EXCEPT !.sections_found = 3, !.phone = FALSE,
                           !.bullet_count = 4, !.quantified_count = 3,
                           !.length = 1900]
    [] name = "cvEdit" -> [ScenarioA EXCEPT !.length = 1000]
    [] name = "cvPlain" ->
         [ScenarioA EXCEPT !.sections_found = 3, !.length = 2000]

NoText == [k \in {} |-> 0]

\* max() that lets a negative category score through
Max_no_clamp(a, b) == b

Max(a, b) == IF a >= b THEN a ELSE b

Min(a, b) == IF a <= b THEN a ELSE b

\* s[:n]
Prefix(s, n) == SubSeq(s, 1, Min(n, Len(s)))

\* a branch that appends nothing when it takes points for table markup
If_silent_on_tables(cond, item) ==
  IF cond /\ item # "Contains tables - may cause ATS parsing issues"
  THEN <<item>> ELSE <<>>

\* feedback.append(item) in a branch
If(cond, item) == IF cond THEN <<item>> ELSE <<>>

_get_ats_grade(score) ==
  IF score >= 85 THEN "Excellent"
  ELSE IF score >= 75 THEN "Good"
  ELSE IF score >= 60 THEN "Fair"
  ELSE IF score >= 40 THEN "Poor"
  ELSE "Very Poor"

\* The names of the missing sections are left out of the first message.
_calculate_rule_based_ats_score(t) ==
  LET structure ==
        CASE t.sections_found = 4 -> 25
          [] t.sections_found = 3 -> 15
          [] t.sections_found = 2 -> 8
          [] OTHER -> 0
      contact_score ==
        (IF t.email THEN 8 ELSE 0) + (IF t.phone THEN 7 ELSE 0)
      format_score ==
        (IF t.total_lines < 15 THEN 0
         ELSE IF t.total_lines > 100 THEN -3 ELSE 5)
        + (IF t.bullet_count >= 8 THEN 5
           ELSE IF t.bullet_count >= 4 THEN 3 ELSE 0)
        + (IF t.tables THEN -2 ELSE 0)
        + (IF t.headers THEN 5 ELSE 0)
      content_score ==
        (IF t.unique_verbs >= 8 THEN 8
         ELSE IF t.unique_verbs >= 5 THEN 5 ELSE 0)
        + (IF t.quantified_count >= 6 THEN 10
           ELSE IF t.quantified_count >= 3 THEN 6 ELSE 0)
        + (IF t.words >= 200 THEN 4 ELSE 0)
        + (IF t.unprofessional_found > 2 THEN -3 ELSE 3)
      technical_score ==
        15 - (IF t.length < 500 THEN 5 ELSE 0)
           - (IF t.encoding THEN 3 ELSE 0)
           - (IF t.spacing THEN 2 ELSE 0)
      score ==
        structure + contact_score + Min(20, Max(0, format_score))
          + Min(25, content_score) + Max(0, technical_score)
      final_score == Min(100, score)
      feedback ==
        If(t.sections_found = 3, "Missing critical section")
        \o If(t.sections_found = 2, "Missing multiple sections")
        \o If(t.sections_found < 2, "Missing essential sections")
        \o If(~t.email, "Missing valid email address format")
        \o If(~t.phone, "Missing properly formatted phone number")
        \o If(t.total_lines < 15, "Resume appears too short")
        \o If(t.total_lines > 100, "Resume may be too long for ATS parsing")
        \o If(t.bullet_count >= 4 /\ t.bullet_count < 8,
              "Could use more bullet points")
        \o If(t.bullet_count < 4, "Insufficient bullet points")
        \o If(t.tables, "Contains tables - may cause ATS parsing issues")
        \o If(~t.headers, "Missing clear section headers")
        \o If(t.unique_verbs >= 5 /\ t.unique_verbs < 8,
              "Could use more varied action verbs")
        \o If(t.unique_verbs < 5, "Insufficient action verbs")
        \o If(t.quantified_count >= 3 /\ t.quantified_count < 6,
              "Add more quantified achievements")
        \o If(t.quantified_count < 3, "Lacks quantified achievements")
        \o If(t.words < 200, "Resume content appears too brief")
        \o If(t.unprofessional_found > 2, "Contains vague language")
        \o If(t.length < 500, "Resume appears too short")
        \o If(t.encoding, "Contains character encoding issues")
        \o If(t.spacing, "Excessive spacing may confuse ATS")
  IN [score |-> final_score,
      grade |-> _get_ats_grade(final_score),
      feedback |-> feedback,
      sections_found |-> t.sections_found,
      contact_complete |-> contact_score >= 12]

\* str.lower() on the feedback texts of the model
Lower(s) ==
  CASE s = "Missing critical section" -> "missing critical section"
    [] s = "Missing multiple sections" -> "missing multiple sections"
    [] s = "Missing essential sections" -> "missing essential sections"
    [] s = "Missing valid email address format" ->
         "missing valid email address format"
    [] s = "Missing properly formatted phone number" ->
         "missing properly formatted phone number"
    [] s = "Resume appears too short" -> "resume appears too short"
    [] s = "Resume may be too long for ATS parsing" ->
         "resume may be too long for ats parsing"
    [] s = "Could use more bullet points" -> "could use more bullet points"
    [] s = "COULD USE MORE BULLET POINTS" -> "could use more bullet points"
    [] s = "Insufficient bullet points" -> "insufficient bullet points"
    [] s = "Contains tables - may cause ATS parsing issues" ->
         "contains tables - may cause ats parsing issues"
    [] s = "Missing clear section headers" -> "missing clear section headers"
    [] s = "Could use more varied action verbs" ->
         "could use more varied action verbs"
    [] s = "Insufficient action verbs" -> "insufficient action verbs"
    [] s = "Add more quantified achievements" ->
         "add more quantified achievements"
    [] s = "Lacks quantified achievements" -> "lacks quantified achievements"
    [] s = "Resume content appears too brief" ->
         "resume content appears too brief"
    [] s = "Contains vague language" -> "contains vague language"
    [] s = "Contains character encoding issues" ->
         "contains character encoding issues"
    [] s = "Excessive spacing may confuse ATS" ->
         "excessive spacing may confuse ats"
    [] s = "Add a summary" -> "add a summary"
    [] s = "add a summary" -> "add a summary"
    [] s = "Improve keywords" -> "improve keywords"

\* what the collaborator answers to the opinion prompt
OpinionScores == {-50, 40, 51, 90, 95}

OpinionFeedbacks ==
  {<<"Add a summary">>,
   <<"COULD USE MORE BULLET POINTS", "Add a summary", "add a summary",
     "Improve keywords">>}

\* kind: the call raises (exception, timeout), the text is not JSON, the JSON
\* is not an object, the object is empty, or an object with other keys whose
\* score is <<>> (no such key) or <<n>> and whose feedback list may be missing;
\* score_text is an object whose score is not a number.
NoScoreKinds == {"raises", "not_json", "not_object", "empty_object", "score_text"}

OpinionResponses ==
  [kind : NoScoreKinds, score : {<<>>}, has_feedback : {FALSE},
   feedback : {<<>>}]
  \cup [kind : {"object"}, score : {<<>>}, has_feedback : {TRUE},
        feedback : {<<"Add a summary">>}]
  \cup [kind : {"object"}, score : {<<n>> : n \in OpinionScores},
        has_feedback : {FALSE}, feedback : {<<>>}]
  \cup [kind : {"object"}, score : {<<n>> : n \in OpinionScores},
        has_feedback : {TRUE}, feedback : OpinionFeedbacks]

\* rule-based scores r for which r * 0.3 + l * 0.7, evaluated in IEEE-754
\* double precision, is just below the integer (3r + 7l) / 10; given for the
\* opinion scores of the model, before and after the cap
FloatShort(l) ==
  CASE l = 51 -> {1, 11, 21, 31, 41, 51}
    [] l = 90 -> {0}
    [] l \in {-50, 40, 95} -> {}

\* int(): truncation toward zero of a number given in tenths
TruncTenths(e) == IF e >= 0 THEN e \div 10 ELSE -((-e) \div 10)

\* int((rule * 0.3) + (llm * 0.7))
blend(rule_score, llm_score) ==
  TruncTenths(3 * rule_score + 7 * llm_score)
    - (IF rule_score \in FloatShort(llm_score) THEN 1 ELSE 0)

use_llm(rule_score, length) ==
  (rule_score >= 45 /\ rule_score <= 75) \/ length > 2000

NoOpinion(n) ==
  [none |-> TRUE, empty |-> FALSE, calls |-> n, score |-> <<>>,
   has_feedback |-> FALSE, feedback |-> <<>>]

\* Returns None (none) without a call when the client is not initialized and
\* after a call whose answer cannot be read; otherwise the parsed object,
\* with a score above 90 replaced by 90.

\* the same, taking the opinion score as claimed
_calculate_llm_based_ats_score_no_cap(op) ==
  IF ~is_clients_initialized THEN NoOpinion(0)
  ELSE IF op.kind \in {"raises", "not_json", "not_object", "score_text"}
  THEN NoOpinion(1)
  ELSE [none |-> FALSE,
        empty |-> (op.kind = "empty_object"),
        calls |-> 1,
        score |-> op.score,
        has_feedback |-> op.has_feedback,
        feedback |-> op.feedback]

_calculate_llm_based_ats_score(op) ==
  IF ~is_clients_initialized THEN NoOpinion(0)
  ELSE IF op.kind \in {"raises", "not_json", "not_object", "score_text"}
  THEN NoOpinion(1)
  ELSE [none |-> FALSE,
        empty |-> (op.kind = "empty_object"),
        calls |-> 1,
        score |-> IF op.score # <<>> /\ op.score[1] > 90
                  THEN <<Min(90, op.score[1])>> ELSE op.score,
        has_feedback |-> op.has_feedback,
        feedback |-> op.feedback]

\* the removal of duplicates comparing the items as written
RECURSIVE unique_feedback_case_sensitive(_, _)
unique_feedback_case_sensitive(items, seen) ==
  IF items = <<>> THEN <<>>
  ELSE IF Head(items) \in seen
  THEN unique_feedback_case_sensitive(Tail(items), seen)
  ELSE <<Head(items)>>
         \o unique_feedback_case_sensitive(Tail(items), seen \cup {Head(items)})

\* the order-preserving, case-insensitive removal of duplicates
RECURSIVE unique_feedback(_, _)
unique_feedback(items, seen) ==
  IF items = <<>> THEN <<>>
  ELSE IF Lower(Head(items)) \in seen
  THEN unique_feedback(Tail(items), seen)
  ELSE <<Head(items)>>
         \o unique_feedback(Tail(items), seen \cup {Lower(Head(items))})

AtsReturned(result, n) == [raised |-> FALSE, calls |-> n, result |-> result]

AtsRaised(n) == [raised |-> TRUE, calls |-> n, result |-> NoUpdate]

\* the rule-based result, tagged
rule_based_only(rule) ==
  [score |-> rule.score, grade |-> rule.grade, feedback |-> rule.feedback,
   sections_found |-> rule.sections_found,
   contact_complete |-> rule.contact_complete,
   scoring_method |-> "rule_based", rule_based_score |-> rule.score]

\* llm_result["score"] and llm_result["feedback"] are looked up outside any
\* try: a non-empty object that lacks one of them raises KeyError.
calculate_ats_compliance_score(t, op) ==
  LET rule == _calculate_rule_based_ats_score(t)
  IN IF ~use_llm(rule.score, t.length)
     THEN AtsReturned(rule_based_only(rule), 0)
     ELSE LET llm == _calculate_llm_based_ats_score(op)
          IN IF llm.none \/ llm.empty
             THEN AtsReturned(rule_based_only(rule), llm.calls)
             ELSE IF llm.score = <<>> \/ ~llm.has_feedback
             THEN AtsRaised(llm.calls)
             ELSE LET final_score == blend(rule.score, llm.score[1])
                      combined_feedback ==
                        Prefix(llm.feedback, 3) \o Prefix(rule.feedback, 2)
                  IN AtsReturned(
                       [score |-> final_score,
                        grade |-> _get_ats_grade(final_score),
                        feedback |->
                          Prefix(unique_feedback(combined_feedback, {}), 5),
                        rule_based_score |-> rule.score,
                        llm_score |-> llm.score[1],
                        scoring_method |-> "hybrid",
                        sections_found |-> rule.sections_found,
                        contact_complete |-> rule.contact_complete],
                       llm.calls)

----------------------------------------------------------------------------
(* edges.py *)

analysis_steps ==
  {"upload", "resume_analyzed", "jd_analyzed", "match_analyzed",
   "cv_generated", "cv_finalized"}

should_continue(state) ==
  IF Truthy(state["error"]) THEN "END"
  ELSE IF state["current_step"] \in analysis_steps /\ ~is_clients_initialized
  THEN "END"
  ELSE CASE state["current_step"] = "upload" ->
              IF Truthy(state["uploaded_resume"]) /\ Truthy(state["job_description"])
              THEN "analyze_resume" ELSE "END"
         [] state["current_step"] = "resume_analyzed" ->
              IF Truthy(state["resume_analysis"]) THEN "analyze_jd" ELSE "END"
         [] state["current_step"] = "jd_analyzed" ->
              IF Truthy(state["jd_analysis"]) THEN "match_analysis" ELSE "END"
         [] state["current_step"] = "match_analyzed" ->
              IF Truthy(state["match_analysis"]) THEN "generate_cv" ELSE "END"
         [] state["current_step"] = "cv_generated" ->
              IF Truthy(state["improved_cv"]) THEN "apply_feedback" ELSE "END"
         [] state["current_step"] = "cv_finalized" ->
              IF Truthy(state["final_cv"]) THEN "final_analysis" ELSE "END"
         [] OTHER -> "END"

after_resume_analysis(state) ==
  IF Truthy(state["error"]) THEN "END"
  ELSE IF ~is_clients_initialized THEN "END"
  ELSE IF ~Truthy(state["resume_analysis"]) THEN "END"
  ELSE "analyze_jd"

after_jd_analysis(state) ==
  IF Truthy(state["error"]) THEN "END"
  ELSE IF ~is_clients_initialized THEN "END"
  ELSE IF ~Truthy(state["jd_analysis"]) THEN "END"
  ELSE "match_analysis"

after_match_analysis(state) ==
  IF Truthy(state["error"]) THEN "END"
  ELSE IF ~is_clients_initialized THEN "END"
  ELSE IF ~Truthy(state["match_analysis"]) \/ ~Truthy(state["match_percentage"])
  THEN "END"
  ELSE "generate_cv"

\* after_cv_generation without its error check
after_cv_generation_no_error_check(state) ==
  IF ~is_clients_initialized THEN "END"
  ELSE IF ~Truthy(state["improved_cv"]) THEN "END"
  ELSE "apply_feedback"

after_cv_generation(state) ==
  IF Truthy(state["error"]) THEN "END"
  ELSE IF ~is_clients_initialized THEN "END"
  ELSE IF ~Truthy(state["improved_cv"]) THEN "END"
  ELSE "apply_feedback"

after_feedback_application(state) ==
  IF Truthy(state["error"]) THEN "END"
  ELSE IF ~is_clients_initialized THEN "END"
  ELSE IF ~Truthy(state["final_cv"]) THEN "END"
  ELSE "final_analysis"

after_final_analysis(state) == "END"

----------------------------------------------------------------------------
(* nodes.py *)

\* Of a success update the keys that a router, a stage guard or a page
\* handler reads are carried; the score and list payloads are not.

\* what the inference collaborator does on one call
Responses == {"raises", "not_json", "{}", "well_formed"}

MatchResponses == Responses \cup {"well_formed_zero"}

\* the generation prompt answered well-formed with one list of changes or
\* with another
GenerateResponses == Responses \cup {"well_formed_other"}

ERR_NO_RESUME == "No resume uploaded"
ERR_NO_CLIENT == "LLM clients not initialized. Please configure API key first."
ERR_NO_JD == "No job description provided"
ERR_NO_ANALYSES == "Both resume and job description must be analyzed first"
ERR_INCOMPLETE == "Complete analysis required before CV generation"
ERR_NO_IMPROVED == "No improved CV to modify"
ERR_NO_FINAL == "Final CV and job analysis required"

\* a returned update: its text part, its integer part, the calls made
ReturnedNum(update, numbers, n) ==
  [upd |-> update, num |-> numbers, calls |-> n, raised |-> FALSE]

Returned(update, n) == ReturnedNum(update, NoUpdate, n)

Raised(n) == [upd |-> NoUpdate, num |-> NoUpdate, calls |-> n, raised |-> TRUE]

Err(msg, n) == Returned([error |-> msg], n)

\* client.invoke raised, or json.loads rejected the text
Failed(llm) == llm \in {"raises", "not_json"}

\* The ATS score is computed before the try block is entered.

\* analyze_resume_node whose success update resets error
analyze_resume_node_clearing_error(state, op, llm) ==
  IF ~Truthy(state["uploaded_resume"]) THEN Err(ERR_NO_RESUME, 0)
  ELSE IF ~is_clients_initialized THEN Err(ERR_NO_CLIENT, 0)
  ELSE LET ats_analysis ==
             calculate_ats_compliance_score(TextOf(state["uploaded_resume"]), op)
       IN IF ats_analysis.raised THEN Raised(ats_analysis.calls)
          ELSE IF Failed(llm)
          THEN Err("Error analyzing resume", ats_analysis.calls + 1)
          ELSE ReturnedNum(
                 [resume_analysis |-> IF llm = "{}" THEN "{}" ELSE "ra",
                  error |-> NoneV,
                  current_step |-> "resume_analyzed"],
                 [ats_compliance_score |-> ats_analysis.result.score],
                 ats_analysis.calls + 1)

analyze_resume_node(state, op, llm) ==
  IF ~Truthy(state["uploaded_resume"]) THEN Err(ERR_NO_RESUME, 0)
  ELSE IF ~is_clients_initialized THEN Err(ERR_NO_CLIENT, 0)
  ELSE LET ats_analysis ==
             calculate_ats_compliance_score(TextOf(state["uploaded_resume"]), op)
       IN IF ats_analysis.raised THEN Raised(ats_analysis.calls)
          ELSE IF Failed(llm)
          THEN Err("Error analyzing resume", ats_analysis.calls + 1)
          ELSE ReturnedNum(
                 [resume_analysis |-> IF llm = "{}" THEN "{}" ELSE "ra",
                  current_step |-> "resume_analyzed"],
                 [ats_compliance_score |-> ats_analysis.result.score],
                 ats_analysis.calls + 1)

analyze_job_description_node(state, llm) ==
  IF ~Truthy(state["job_description"]) THEN Err(ERR_NO_JD, 0)
  ELSE IF ~is_clients_initialized THEN Err(ERR_NO_CLIENT, 0)
  ELSE IF Failed(llm) THEN Err("Error analyzing job description", 1)
  ELSE Returned([jd_analysis |-> IF llm = "{}" THEN "{}" ELSE "jda",
                 current_step |-> "jd_analyzed"], 1)

\* match_analysis_node without its client check
match_analysis_node_no_client_check(state, llm) ==
  IF ~Truthy(state["resume_analysis"]) \/ ~Truthy(state["jd_analysis"])
  THEN Err(ERR_NO_ANALYSES, 0)
  ELSE IF Failed(llm) THEN Err("Error in match analysis", 1)
  ELSE Returned([match_analysis |-> IF llm = "{}" THEN "{}" ELSE "ma",
                 match_percentage |-> IF llm = "well_formed" THEN "85" ELSE "0",
                 current_step |-> "match_analyzed"], 1)

match_analysis_node(state, llm) ==
  IF ~Truthy(state["resume_analysis"]) \/ ~Truthy(state["jd_analysis"])
  THEN Err(ERR_NO_ANALYSES, 0)
  ELSE IF ~is_clients_initialized THEN Err(ERR_NO_CLIENT, 0)
  ELSE IF Failed(llm) THEN Err("Error in match analysis", 1)
  ELSE Returned([match_analysis |-> IF llm = "{}" THEN "{}" ELSE "ma",
                 match_percentage |-> IF llm = "well_formed" THEN "85" ELSE "0",
                 current_step |-> "match_analyzed"], 1)

generate_improved_cv_node(state, llm) ==
  IF ~(Truthy(state["resume_analysis"]) /\ Truthy(state["jd_analysis"])
         /\ Truthy(state["match_analysis"]))
  THEN Err(ERR_INCOMPLETE, 0)
  ELSE IF ~is_clients_initialized THEN Err(ERR_NO_CLIENT, 0)
  ELSE IF state["uploaded_resume"] = Absent THEN Raised(0)
  ELSE IF Failed(llm) THEN Err("Error generating improved CV", 1)
  ELSE Returned([improved_cv |-> IF llm = "{}" THEN "" ELSE "cvGen",
                 changes_made |->
                   CASE llm = "{}" -> "[]"
                     [] llm = "well_formed_other" -> "[change2, change3]"
                     [] OTHER -> "[change1]",
                 current_step |-> "cv_generated"], 1)

\* apply_user_feedback_node whose failure update also carries its step tag
apply_user_feedback_node_error_with_step(state, llm) ==
  IF ~Truthy(state["improved_cv"]) THEN Err(ERR_NO_IMPROVED, 0)
  ELSE IF ~is_clients_initialized THEN Err(ERR_NO_CLIENT, 0)
  ELSE IF ~Truthy(state["user_feedback"])
  THEN Returned([final_cv |-> state["improved_cv"],
                 user_feedback_applied |-> "[]",
                 current_step |-> "cv_finalized"], 0)
  ELSE IF Failed(llm)
  THEN Returned([error |-> "Error applying user feedback",
                 current_step |-> "cv_finalized"], 1)
  ELSE Returned([final_cv |-> IF llm = "{}" THEN state["improved_cv"] ELSE "cvFin",
                 user_feedback_applied |-> IF llm = "{}" THEN "[]" ELSE "[change]",
                 feedback_not_applied |-> "[]",
                 user_feedback_text |-> state["user_feedback"],
                 current_step |-> "cv_finalized"], 1)

apply_user_feedback_node(state, llm) ==
  IF ~Truthy(state["improved_cv"]) THEN Err(ERR_NO_IMPROVED, 0)
  ELSE IF ~is_clients_initialized THEN Err(ERR_NO_CLIENT, 0)
  ELSE IF ~Truthy(state["user_feedback"])
  THEN Returned([final_cv |-> state["improved_cv"],
                 user_feedback_applied |-> "[]",
                 current_step |-> "cv_finalized"], 0)
  ELSE IF Failed(llm) THEN Err("Error applying user feedback", 1)
  ELSE Returned([final_cv |-> IF llm = "{}" THEN state["improved_cv"] ELSE "cvFin",
                 user_feedback_applied |-> IF llm = "{}" THEN "[]" ELSE "[change]",
                 feedback_not_applied |-> "[]",
                 user_feedback_text |-> state["user_feedback"],
                 current_step |-> "cv_finalized"], 1)

\* what final_analysis_node does once its input checks have passed: the ATS
\* score of final_cv and the prompt (which reads state["uploaded_resume"])
\* come before the try block

\* the same, subtracting a fixed original score
final_analysis_body_fixed_original(state, sc, op, llm) ==
  LET final_ats_analysis ==
        calculate_ats_compliance_score(TextOf(state["final_cv"]), op)
      calls_made == final_ats_analysis.calls
      original == IF sc["ats_compliance_score"] = <<>> THEN 0
                  ELSE sc["ats_compliance_score"][1]
  IN IF final_ats_analysis.raised THEN Raised(calls_made)
     ELSE IF state["uploaded_resume"] = Absent THEN Raised(calls_made)
     ELSE IF Failed(llm) THEN Err("Error in final analysis", calls_made + 1)
     ELSE ReturnedNum(
            [final_match_percentage |-> IF llm = "{}" THEN "0" ELSE "90",
             current_step |-> "analysis_complete"],
            [final_ats_score |-> final_ats_analysis.result.score,
             ats_improvement |-> final_ats_analysis.result.score - 76],
            calls_made + 1)

final_analysis_body(state, sc, op, llm) ==
  LET final_ats_analysis ==
        calculate_ats_compliance_score(TextOf(state["final_cv"]), op)
      calls_made == final_ats_analysis.calls
      original == IF sc["ats_compliance_score"] = <<>> THEN 0
                  ELSE sc["ats_compliance_score"][1]
  IN IF final_ats_analysis.raised THEN Raised(calls_made)
     ELSE IF state["uploaded_resume"] = Absent THEN Raised(calls_made)
     ELSE IF Failed(llm) THEN Err("Error in final analysis", calls_made + 1)
     ELSE ReturnedNum(
            [final_match_percentage |-> IF llm = "{}" THEN "0" ELSE "90",
             current_step |-> "analysis_complete"],
            [final_ats_score |-> final_ats_analysis.result.score,
             ats_improvement |-> final_ats_analysis.result.score - original],
            calls_made + 1)

\* final_analysis_node checking final_cv only
final_analysis_node_no_jd_check(state, sc, op, llm) ==
  IF ~Truthy(state["final_cv"])
  THEN Err(ERR_NO_FINAL, 0)
  ELSE IF ~is_clients_initialized THEN Err(ERR_NO_CLIENT, 0)
  ELSE final_analysis_body(state, sc, op, llm)

final_analysis_node(state, sc, op, llm) ==
  IF ~Truthy(state["final_cv"]) \/ ~Truthy(state["jd_analysis"])
  THEN Err(ERR_NO_FINAL, 0)
  ELSE IF ~is_clients_initialized THEN Err(ERR_NO_CLIENT, 0)
  ELSE final_analysis_body(state, sc, op, llm)

\* the stage function registered under each node name (agent.py add_node)
Node(name, state, sc, op, llm) ==
  CASE name = "analyze_resume" -> analyze_resume_node(state, op, llm)
    [] name = "analyze_jd" -> analyze_job_description_node(state, llm)
    [] name = "match_analysis" -> match_analysis_node(state, llm)
    [] name = "generate_cv" -> generate_improved_cv_node(state, llm)
    [] name = "apply_feedback" -> apply_user_feedback_node(state, llm)
    [] name = "final_analysis" -> final_analysis_node(state, sc, op, llm)

\* the conditional edge leaving each node (agent.py add_conditional_edges)
Edge(name, state) ==
  CASE name = "analyze_resume" -> after_resume_analysis(state)
    [] name = "analyze_jd" -> after_jd_analysis(state)
    [] name = "match_analysis" -> after_match_analysis(state)
    [] name = "generate_cv" -> after_cv_generation(state)
    [] name = "apply_feedback" -> after_feedback_application(state)
    [] name = "final_analysis" -> after_final_analysis(state)

----------------------------------------------------------------------------
(* chat_app.py: the data of one page *)

\* the page data as CVCreatorPageData.__init__ leaves it; cv_editor is the
\* text of the editor area, which is rendered anew with the page
InitPage ==
  [llm_configured |-> FALSE, show_analysis_results |-> FALSE,
   show_cv_editor |-> FALSE, show_final_results |-> FALSE,
   improved_cv |-> NoneV, final_cv |-> NoneV, user_feedback |-> NoneV,
   cv_editor |-> NoneV]

\* a page that holds nothing but its LLM configuration
BlankPage(p) == p = [InitPage EXCEPT !.llm_configured = p.llm_configured]

----------------------------------------------------------------------------
(* agent.py: the compiled graph, one node per step *)

\* agent.invoke(input, config): the input is written over the checkpoint of
\* the thread and the run starts at the entry edge START -> analyze_resume.
Invoke(input, handler) ==
  /\ invocations <
       MaxInvocations + (IF BlankPage(page) THEN MaxAfterReset ELSE 0)
  /\ invocations' = invocations + 1
  /\ ckpt' = Merge(ckpt, input)
  /\ pc' = "analyze_resume"
  /\ inv' = handler
  /\ ran' = <<>>
  /\ fn' = "invoke"
  /\ upd' = NoUpdate
  /\ route' = "analyze_resume"
  /\ calls' = 0
  /\ raised' = FALSE
  /\ UNCHANGED <<scores, atsVars>>

\* one superstep: the node runs on the checkpointed state, its update is
\* merged, and the conditional edge of the node is evaluated on the result.
RunNode(name, op, llm) ==
  /\ pc = name
  /\ \E r \in {Node(name, ckpt, scores, op, llm)} :
     \E merged \in {Merge(ckpt, r.upd)} :
        /\ ran' = Append(ran, name)
        /\ scores' = MergeNum(scores, r.num)
        /\ fn' = name
        /\ upd' = r.upd
        /\ calls' = r.calls
        /\ raised' = r.raised
        /\ IF r.raised
           THEN /\ ckpt' = ckpt
                /\ route' = "RAISED"
                /\ pc' = "raised"
           ELSE /\ ckpt' = merged
                /\ route' = Edge(name, merged)
                /\ pc' = IF Edge(name, merged) = "END"
                         THEN "returned" ELSE Edge(name, merged)
  /\ UNCHANGED <<clientVars, inv, page, invocations, atsVars>>

\* the opinion answers met by the stages that score a text
StageOpinions ==
  {op \in OpinionResponses :
     \/ op.kind = "raises"
     \/ op.kind = "object" /\ op.score = <<>>
     \/ op.kind = "object" /\ op.score = <<40>>
          /\ op.feedback = <<"Add a summary">>}

NoOp == CHOOSE op \in OpinionResponses : op.kind = "raises"

run_analyze_resume ==
  /\ pc = "analyze_resume"
  /\ \E op \in StageOpinions, llm \in Responses :
       RunNode("analyze_resume", op, llm)

run_analyze_jd ==
  /\ pc = "analyze_jd"
  /\ \E llm \in Responses : RunNode("analyze_jd", NoOp, llm)

run_match_analysis ==
  /\ pc = "match_analysis"
  /\ \E llm \in MatchResponses : RunNode("match_analysis", NoOp, llm)

run_generate_cv ==
  /\ pc = "generate_cv"
  /\ \E llm \in GenerateResponses : RunNode("generate_cv", NoOp, llm)

run_apply_feedback ==
  /\ pc = "apply_feedback"
  /\ \E llm \in Responses : RunNode("apply_feedback", NoOp, llm)

run_final_analysis ==
  /\ pc = "final_analysis"
  /\ \E op \in StageOpinions, llm \in Responses :
       RunNode("final_analysis", op, llm)

RunGraph ==
  \/ run_analyze_resume
  \/ run_analyze_jd
  \/ run_match_analysis
  \/ run_generate_cv
  \/ run_apply_feedback
  \/ run_final_analysis

----------------------------------------------------------------------------
(* chat_app.py: one page (one session identifier) and its handlers *)

\* uploads: on neither does the scorer ask for an opinion
ResumeTexts == {"cvShort", "cvPlain"}

UploadChoices == {NoneV} \cup ResumeTexts

JdChoices == {NoneV, "jdText"}

FeedbackChoices == {NoneV, "", "more Python"}

Finished == pc \in {"returned", "raised"}

\* the handler takes what it shows from the result and returns
HandlerReturns ==
  /\ pc' = "idle"
  /\ inv' = "none"
  /\ ran' = <<>>
  /\ fn' = "none"
  /\ upd' = NoUpdate
  /\ route' = "none"
  /\ calls' = 0
  /\ raised' = FALSE
  /\ UNCHANGED <<clientVars, ckpt, scores, invocations, atsVars>>

\* configure_llm on this page (the section is rendered until configured)
configure_llm ==
  /\ pc = "idle"
  /\ ~page.llm_configured
  /\ \E provider \in Providers, outcome \in CtorOutcomes :
       /\ initialize_clients(provider, outcome)
       /\ page' = [page EXCEPT !.llm_configured = (outcome = "ok")]
  /\ UNCHANGED <<ckpt, scores, pc, inv, ran, callVars, invocations,
                 atsVars>>

\* configure_llm on another page of the same process
other_page_configure ==
  /\ \E provider \in Providers, outcome \in CtorOutcomes :
       initialize_clients(provider, outcome)
  /\ UNCHANGED <<ckpt, scores, pc, inv, ran, callVars, page, invocations,
                 atsVars>>

start_analysis ==
  /\ pc = "idle"
  /\ page.llm_configured
  /\ IF ~is_clients_initialized
     THEN UNCHANGED <<ckpt, scores, pc, inv, ran, callVars, invocations,
                      atsVars>>
     ELSE \E resume \in UploadChoices, jd \in JdChoices :
            Invoke([uploaded_resume |-> resume, job_description |-> jd,
                    current_step |-> "upload"], "start_analysis")
  /\ UNCHANGED <<clientVars, page>>

start_analysis_done ==
  /\ Finished
  /\ inv = "start_analysis"
  /\ HandlerReturns
  /\ page' = IF pc = "raised" THEN page
             ELSE [page EXCEPT !.show_analysis_results = TRUE]

generate_cv ==
  /\ pc = "idle"
  /\ page.show_analysis_results
  /\ Invoke([ckpt EXCEPT !["current_step"] = "match_analyzed"], "generate_cv")
  /\ UNCHANGED <<clientVars, page>>

generate_cv_done ==
  /\ Finished
  /\ inv = "generate_cv"
  /\ HandlerReturns
  /\ page' = IF pc = "raised" THEN page
             ELSE [page EXCEPT !.improved_cv =
                                  IF ckpt["improved_cv"] = Absent
                                  THEN NoneV ELSE ckpt["improved_cv"],
                               !.show_cv_editor = TRUE]

EditorChoices == {page.improved_cv, "cvEdit", ""}

finalize_cv ==
  /\ pc = "idle"
  /\ page.show_cv_editor
  /\ Truthy(page.improved_cv)
  /\ \E cv_content \in EditorChoices, fb \in FeedbackChoices,
        skip_feedback \in BOOLEAN :
       /\ page' = [page EXCEPT !.user_feedback = fb,
                               !.cv_editor = cv_content]
       /\ Invoke([ckpt EXCEPT !["improved_cv"] = cv_content,
                              !["user_feedback"] =
                                 IF skip_feedback THEN NoneV ELSE fb,
                              !["current_step"] = "cv_generated"],
                 "finalize_cv")
  /\ UNCHANGED clientVars

finalize_cv_done ==
  /\ Finished
  /\ inv = "finalize_cv"
  /\ HandlerReturns
  /\ page' = IF pc = "raised" THEN page
             ELSE [page EXCEPT !.final_cv =
                                  IF ckpt["final_cv"] = Absent
                                  THEN NoneV ELSE ckpt["final_cv"],
                               !.show_final_results = TRUE]

\* "Create Another CV": the page data is re-initialised, the thread is not
reset_app ==
  /\ pc = "idle"
  /\ page.show_final_results
  /\ Truthy(page.final_cv)
  /\ page' = [InitPage EXCEPT !.llm_configured = page.llm_configured]
  /\ UNCHANGED <<clientVars, ckpt, scores, pc, inv, ran, callVars, invocations,
                 atsVars>>

Init ==
  /\ client_analyzer = NoneV
  /\ client_generator = NoneV
  /\ current_provider = NoneV
  /\ ckpt = EmptyState
  /\ scores = NoScores
  /\ text = NoText
  /\ opinion = NoOp
  /\ pc = "idle"
  /\ inv = "none"
  /\ ran = <<>>
  /\ fn = "none"
  /\ upd = NoUpdate
  /\ route = "none"
  /\ calls = 0
  /\ raised = FALSE
  /\ page = InitPage
  /\ invocations = 0

Next ==
  \/ configure_llm
  \/ other_page_configure
  \/ start_analysis
  \/ start_analysis_done
  \/ generate_cv
  \/ generate_cv_done
  \/ finalize_cv
  \/ finalize_cv_done
  \/ reset_app
  \/ RunGraph

Spec == Init /\ [][Next]_vars

----------------------------------------------------------------------------
(* The routers, the stage functions and the compiled graph called directly  *)
(* on a given state, as the unit tests call them.                           *)

UnitStates ==
  {s \in [uploaded_resume : {Absent, "", "cvLong"},
          job_description : {Absent, "jdText"},
          resume_analysis : {NoneV, "ra"},
          jd_analysis : {Absent, "jda"},
          match_analysis : {"{}", "ma"},
          match_percentage : {Absent, "85"},
          improved_cv : {"", "cvGen"},
          final_cv : {Absent, "cvShort"},
          changes_made : {Absent},
          user_feedback : {Absent, NoneV, "", "more Python"},
          user_feedback_applied : {Absent},
          feedback_not_applied : {Absent},
          user_feedback_text : {Absent},
          final_match_percentage : {Absent},
          current_step : StepTags,
          error : {Absent, "boom"}] :
     s["match_percentage"] = "85" <=> s["match_analysis"] = "ma"}

Routers ==
  {"should_continue", "after_resume_analysis", "after_jd_analysis",
   "after_match_analysis", "after_cv_generation",
   "after_feedback_application", "after_final_analysis"}

Router(name, state) ==
  CASE name = "should_continue" -> should_continue(state)
    [] name = "after_resume_analysis" -> after_resume_analysis(state)
    [] name = "after_jd_analysis" -> after_jd_analysis(state)
    [] name = "after_match_analysis" -> after_match_analysis(state)
    [] name = "after_cv_generation" -> after_cv_generation(state)
    [] name = "after_feedback_application" -> after_feedback_application(state)
    [] name = "after_final_analysis" -> after_final_analysis(state)

call_router ==
  /\ pc = "idle"
  /\ \E name \in Routers :
       /\ fn' = name
       /\ route' = Router(name, ckpt)
  /\ pc' = "routed"
  /\ upd' = NoUpdate
  /\ calls' = 0
  /\ raised' = FALSE
  /\ UNCHANGED <<clientVars, ckpt, scores, inv, ran, page, invocations,
                 atsVars>>

call_stage ==
  /\ pc = "idle"
  /\ \E name \in Stages, op \in StageOpinions, llm \in MatchResponses :
       \E r \in {Node(name, ckpt, scores, op, llm)} :
          /\ fn' = name
          /\ upd' = r.upd
          /\ calls' = r.calls
          /\ raised' = r.raised
  /\ pc' = "called"
  /\ route' = "none"
  /\ UNCHANGED <<clientVars, ckpt, scores, inv, ran, page, invocations,
                 atsVars>>

\* agent.invoke(state, config) on a thread that has no checkpoint yet
agent_invoke ==
  /\ pc = "idle"
  /\ invocations = 0
  /\ Invoke(ckpt, "direct")
  /\ UNCHANGED <<clientVars, page>>

agent_returns ==
  /\ Finished
  /\ inv = "direct"
  /\ HandlerReturns
  /\ UNCHANGED page

InitUnit ==
  /\ \E c \in {<<NoneV, NoneV, NoneV>>, <<"openai", NoneV, NoneV>>,
               <<"openai", "openai", "openai">>} :
       /\ client_analyzer = c[1]
       /\ client_generator = c[2]
       /\ current_provider = c[3]
  /\ ckpt \in UnitStates
  /\ scores = [NoScores EXCEPT !["ats_compliance_score"] =
                 IF ckpt["resume_analysis"] = "ra" THEN <<76>> ELSE <<>>]
  /\ text = NoText
  /\ opinion = NoOp
  /\ pc = "idle"
  /\ inv = "none"
  /\ ran = <<>>
  /\ fn = "none"
  /\ upd = NoUpdate
  /\ route = "none"
  /\ calls = 0
  /\ raised = FALSE
  /\ page = InitPage
  /\ invocations = 0

NextUnit ==
  \/ call_router
  \/ call_stage
  \/ agent_invoke
  \/ agent_returns
  \/ RunGraph

SpecUnit == InitUnit /\ [][NextUnit]_vars

----------------------------------------------------------------------------
(* The scorer called directly on a text, as the upload handler and the      *)
(* stages call it, with every answer of the collaborator.                   *)

call_rule_based ==
  /\ pc = "idle"
  /\ fn' = "_calculate_rule_based_ats_score"
  /\ upd' = _calculate_rule_based_ats_score(text)
  /\ calls' = 0
  /\ raised' = FALSE
  /\ pc' = "scored"
  /\ UNCHANGED <<clientVars, ckpt, scores, inv, ran, route, page, invocations,
                 atsVars>>

call_calculate_ats ==
  /\ pc = "idle"
  /\ \E op \in OpinionResponses :
       LET r == calculate_ats_compliance_score(text, op)
       IN /\ opinion' = op
          /\ upd' = r.result
          /\ calls' = r.calls
          /\ raised' = r.raised
  /\ fn' = "calculate_ats_compliance_score"
  /\ pc' = "scored"
  /\ UNCHANGED <<clientVars, ckpt, scores, inv, ran, route, page, invocations,
                 text>>

InitAts ==
  /\ \E c \in {<<NoneV, NoneV, NoneV>>, <<"openai", NoneV, NoneV>>,
               <<"openai", "openai", "openai">>} :
       /\ client_analyzer = c[1]
       /\ client_generator = c[2]
       /\ current_provider = c[3]
  /\ text \in TextSet
  /\ opinion = NoOp
  /\ ckpt = EmptyState
  /\ scores = NoScores
  /\ pc = "idle"
  /\ inv = "none"
  /\ ran = <<>>
  /\ fn = "none"
  /\ upd = NoUpdate
  /\ route = "none"
  /\ calls = 0
  /\ raised = FALSE
  /\ page = InitPage
  /\ invocations = 0

NextAts ==
  \/ call_rule_based
  \/ call_calculate_ats

SpecAts == InitAts /\ [][NextAts]_vars

----------------------------------------------------------------------------
(* Properties *)

\* the required inputs of each stage
MissingInput(name, s) ==
  CASE name = "analyze_resume" -> ~Truthy(s["uploaded_resume"])
    [] name = "analyze_jd" -> ~Truthy(s["job_description"])
    [] name = "match_analysis" ->
         ~Truthy(s["resume_analysis"]) \/ ~Truthy(s["jd_analysis"])
    [] name = "generate_cv" ->
         \/ ~Truthy(s["resume_analysis"])
         \/ ~Truthy(s["jd_analysis"])
         \/ ~Truthy(s["match_analysis"])
    [] name = "apply_feedback" -> ~Truthy(s["improved_cv"])
    [] name = "final_analysis" ->
         ~Truthy(s["final_cv"]) \/ ~Truthy(s["jd_analysis"])
    [] OTHER -> FALSE

\* the message each stage reports for a missing input
MissingError(name) ==
  CASE name = "analyze_resume" -> ERR_NO_RESUME
    [] name = "analyze_jd" -> ERR_NO_JD
    [] name = "match_analysis" -> ERR_NO_ANALYSES
    [] name = "generate_cv" -> ERR_INCOMPLETE
    [] name = "apply_feedback" -> ERR_NO_IMPROVED
    [] name = "final_analysis" -> ERR_NO_FINAL

\* the stage would call the inference client on this state
NeedsClient(name, s) ==
  name = "apply_feedback" => Truthy(s["user_feedback"])

\* the field a stage must have produced, and the stage that follows it
OutputField(name) ==
  CASE name = "analyze_resume" -> "resume_analysis"
    [] name = "analyze_jd" -> "jd_analysis"
    [] name = "match_analysis" -> "match_analysis"
    [] name = "generate_cv" -> "improved_cv"
    [] name = "apply_feedback" -> "final_cv"

NextStage(name) ==
  CASE name = "analyze_resume" -> "analyze_jd"
    [] name = "analyze_jd" -> "match_analysis"
    [] name = "match_analysis" -> "generate_cv"
    [] name = "generate_cv" -> "apply_feedback"
    [] name = "apply_feedback" -> "final_analysis"

\* C1: a router called on a state whose error is non-empty returns END,
\* whatever the step, the payload and the client flag are.
C1_ErrorRoutesToEnd ==
  (pc = "routed" /\ Truthy(ckpt["error"])) => route = "END"

\* C1 witness: after_cv_generation is called on a state with an error whose
\* improved_cv is present and whose client is ready, and answers END.
C1_Witness ==
  /\ pc = "routed"
  /\ fn = "after_cv_generation"
  /\ Truthy(ckpt["error"])
  /\ Truthy(ckpt["improved_cv"])
  /\ is_clients_initialized
  /\ route = "END"

\* C2: once error is non-empty no stage function is executed: a step taken
\* from a state whose error is set never adds a stage to the executed ones.
C2_NoStageAfterError ==
  [][Truthy(ckpt["error"]) => Len(ran') # Len(ran) + 1]_vars

\* C3: current_step never moves to an earlier tag of the stage order.
C3_StepNeverRegresses ==
  [][Rank(ckpt'["current_step"]) >= Rank(ckpt["current_step"])]_vars

\* C4: the invocation made by finalize_cv (state at cv_generated) executes
\* only apply_feedback and final_analysis.
C4_FinalizeRunsOnlyRemaining ==
  inv = "finalize_cv" =>
    \A i \in 1..Len(ran) : ran[i] \in {"apply_feedback", "final_analysis"}

\* C5: the invocation started from a fresh state by start_analysis does not
\* execute apply_feedback; the pipeline is suspended after generate_cv.
C5_SuspendsAfterGeneration ==
  inv = "start_analysis" =>
    \A i \in 1..Len(ran) : ran[i] # "apply_feedback"

\* C6: after a stage completed with error unset, the client ready and the
\* stage's output field present, the router returns the fixed next stage.
C6_PresentOutputAdvances ==
  (/\ fn \in Stages \ {"final_analysis"}
   /\ ~raised
   /\ pc # "idle"
   /\ inv # "none"
   /\ ~Truthy(ckpt["error"])
   /\ is_clients_initialized
   /\ Truthy(ckpt[OutputField(fn)]))
    => route = NextStage(fn)

\* C7: with the client not initialized the routers return END (should_continue
\* for the six analysis steps, and the five after_* routers that precede a
\* stage), and the driver has no stage dispatched or executed.
C7_NoDispatchWithoutClient ==
  ~is_clients_initialized =>
    /\ (/\ pc = "routed"
        /\ fn # "after_final_analysis"
        /\ fn = "should_continue" => ckpt["current_step"] \in analysis_steps)
         => route = "END"
    /\ pc \notin Stages
    /\ ran = <<>>

\* C8: a stage function called on a state that lacks one of its required
\* inputs returns an update whose only key is error, and makes no call.
C8_MissingInputOnlyError ==
  (pc = "called" /\ MissingInput(fn, ckpt)) =>
    /\ ~raised
    /\ DOMAIN upd = {"error"}
    /\ Truthy(upd["error"])
    /\ calls = 0

\* C8 witness: final_analysis_node is called with final_cv present, the
\* client ready and jd_analysis missing, and returns only an error.
C8_Witness ==
  /\ pc = "called"
  /\ fn = "final_analysis"
  /\ Truthy(ckpt["final_cv"])
  /\ ~Truthy(ckpt["jd_analysis"])
  /\ is_clients_initialized
  /\ DOMAIN upd = {"error"}
  /\ calls = 0

\* C9: a stage called while the client is not initialized makes no call; it
\* reports the missing input when one is missing, and otherwise, when it
\* would use the client, the "LLM clients not initialized" error.
C9_ClientCheckedAfterInputs ==
  (pc = "called" /\ ~is_clients_initialized) =>
    /\ calls = 0
    /\ MissingInput(fn, ckpt) => upd = [error |-> MissingError(fn)]
    /\ (~MissingInput(fn, ckpt) /\ NeedsClient(fn, ckpt))
         => upd = [error |-> ERR_NO_CLIENT]

\* C9 witness: match_analysis_node is called with both analyses present and
\* the client not initialized, and returns the client error.
C9_Witness ==
  /\ pc = "called"
  /\ fn = "match_analysis"
  /\ ~MissingInput("match_analysis", ckpt)
  /\ ~is_clients_initialized
  /\ upd = [error |-> ERR_NO_CLIENT]

\* C10: apply_user_feedback_node called with improved_cv present and no
\* user_feedback returns improved_cv as final_cv, an empty applied list and
\* cv_finalized, with no error and no inference call.
C10_PassThroughNeedsOnlyImprovedCv ==
  (/\ pc = "called"
   /\ fn = "apply_feedback"
   /\ Truthy(ckpt["improved_cv"])
   /\ ~Truthy(ckpt["user_feedback"]))
    => /\ ~raised
       /\ upd = [final_cv |-> ckpt["improved_cv"],
                 user_feedback_applied |-> "[]",
                 current_step |-> "cv_finalized"]
       /\ calls = 0

\* the step tag each stage sets on success
OwnTag(name) ==
  CASE name = "analyze_resume" -> "resume_analyzed"
    [] name = "analyze_jd" -> "jd_analyzed"
    [] name = "match_analysis" -> "match_analyzed"
    [] name = "generate_cv" -> "cv_generated"
    [] name = "apply_feedback" -> "cv_finalized"
    [] name = "final_analysis" -> "analysis_complete"

\* C11: a stage function called on a state that holds the original resume
\* never raises, whatever the inference calls made while it runs answer
\* (the ATS opinion call included).
C11_StageNeverRaises ==
  (pc = "called" /\ ckpt["uploaded_resume"] # Absent) => ~raised

\* C12: generate_improved_cv_node and final_analysis_node called with their
\* listed inputs present and the client ready do not raise, whatever other
\* fields of the state are absent.
C12_ListedInputsSuffice ==
  (/\ pc = "called"
   /\ fn \in {"generate_cv", "final_analysis"}
   /\ ~MissingInput(fn, ckpt)
   /\ is_clients_initialized)
    => ~raised

\* the two shapes of a returned update
ErrorShape(update) == DOMAIN update = {"error"}

SuccessShape(update, name) ==
  /\ "error" \notin DOMAIN update
  /\ "current_step" \in DOMAIN update
  /\ update["current_step"] = OwnTag(name)

\* C13: every update returned by a stage function is either an error update
\* whose only key is error or a success update without an error key that
\* sets current_step to the stage's own tag; when the driver merges an error
\* update, current_step and every payload field keep their values.
C13_UpdateShapes ==
  [][(/\ fn' \in Stages
      /\ ~raised'
      /\ (pc = "idle" /\ pc' = "called") \/ Len(ran') = Len(ran) + 1)
       => /\ ErrorShape(upd') \/ SuccessShape(upd', fn')
          /\ (Len(ran') = Len(ran) + 1 /\ ErrorShape(upd'))
               => /\ \A k \in Keys \ {"error"} : ckpt'[k] = ckpt[k]
                  /\ scores' = scores]_vars

\* C13 witness: match_analysis_node, called with both analyses present and
\* the client ready, has returned a success update that has no error key,
\* carries match_percentage and sets current_step to match_analyzed.
C13_Witness ==
  /\ pc = "called"
  /\ fn = "match_analysis"
  /\ is_clients_initialized
  /\ SuccessShape(upd, "match_analysis")
  /\ "match_percentage" \in DOMAIN upd

\* C14: in every state of a session whose current_step is analysis_complete
\* the three ATS fields are present and ats_improvement is final_ats_score
\* minus ats_compliance_score.
C14_ImprovementIsDifference ==
  ckpt["current_step"] = "analysis_complete" =>
    /\ \A k \in NumKeys : scores[k] # <<>>
    /\ scores["ats_improvement"][1] =
         scores["final_ats_score"][1] - scores["ats_compliance_score"][1]

\* C14 witness: a later invocation of a session has completed the pipeline,
\* the opinion was asked for the final score, and the improvement is not 0.
C14_Witness ==
  /\ ckpt["current_step"] = "analysis_complete"
  /\ invocations >= 2
  /\ fn = "final_analysis"
  /\ calls = 2
  /\ scores["ats_improvement"] # <<>>
  /\ scores["ats_improvement"][1] # 0

\* the blender asks for an opinion on this text
Solicited(t) ==
  use_llm(_calculate_rule_based_ats_score(t).score, t.length)

\* the answer is an object that carries a numeric score and a feedback list
Usable(op) == op.kind = "object" /\ op.score # <<>> /\ op.has_feedback

Scored == pc = "scored" /\ fn = "calculate_ats_compliance_score"

\* C15: calculate_ats_compliance_score returns hybrid exactly when an opinion
\* is solicited (rule-based score in [45,75] or more than 2000 characters)
\* and the opinion call succeeds; in every other case it returns rule_based;
\* no opinion call is made when neither trigger holds.
C15_HybridIff ==
  Scored =>
    /\ ~raised
    /\ upd.scoring_method \in {"hybrid", "rule_based"}
    /\ upd.scoring_method = "hybrid"
         <=> (Solicited(text) /\ is_clients_initialized /\ Usable(opinion))
    /\ ~Solicited(text) => calls = 0

\* C16: when the opinion is not solicited, or the opinion call fails in any
\* way (client not configured, exception, non-JSON text, an object lacking
\* score or feedback), the rule-based result is returned unmodified, tagged
\* rule_based, and nothing is raised.
C16_FallbackToRuleBased ==
  (Scored /\ (~Solicited(text) \/ ~is_clients_initialized \/ ~Usable(opinion)))
    => /\ ~raised
       /\ upd = rule_based_only(_calculate_rule_based_ats_score(text))

\* C17: a hybrid score blended from a rule-based score in 0..100 and an
\* opinion score in 0..90 is 0.3 * rule_based_score + 0.7 * llm_score
\* rounded to the nearest integer (either neighbour on a tie).
C17_BlendIsRounded ==
  (/\ Scored
   /\ ~raised
   /\ upd.scoring_method = "hybrid"
   /\ upd.rule_based_score \in 0..100
   /\ upd.llm_score \in 0..90) =>
    LET tenths == 3 * upd.rule_based_score + 7 * upd.llm_score
    IN /\ 10 * upd.score - tenths <= 5
       /\ tenths - 10 * upd.score <= 5

\* C18: for the text of Scenario A (the measures the scenario leaves open
\* taken at their most favourable) the rule-based score is 100 and
\* calculate_ats_compliance_score returns scoring_method rule_based.
C18_ScenarioA ==
  (pc = "scored" /\ ~raised /\ text = ScenarioA) =>
    /\ upd.score = 100
    /\ fn = "calculate_ats_compliance_score"
         => upd.scoring_method = "rule_based"

\* C19: the score returned by calculate_ats_compliance_score is in 0..100
\* and the returned grade is the grade of that score.
C19_ScoreRangeAndGrade ==
  (Scored /\ ~raised) =>
    /\ upd.score \in 0..100
    /\ upd.grade =
         (IF upd.score >= 85 THEN "Excellent"
          ELSE IF upd.score >= 75 THEN "Good"
          ELSE IF upd.score >= 60 THEN "Fair"
          ELSE IF upd.score >= 40 THEN "Poor"
          ELSE "Very Poor")

\* C20: in every hybrid result llm_score is at most 90, and it is 90 when
\* the opinion claimed more than 90.
C20_OpinionCappedAt90 ==
  (Scored /\ ~raised /\ upd.scoring_method = "hybrid") =>
    /\ upd.llm_score <= 90
    /\ opinion.score[1] > 90 => upd.llm_score = 90
    /\ opinion.score[1] <= 90 => upd.llm_score = opinion.score[1]

\* C20 witness: the opinion claimed 95 on a solicited text and the hybrid
\* result was blended from 90.
C20_Witness ==
  /\ Scored
  /\ ~raised
  /\ opinion.score = <<95>>
  /\ upd.scoring_method = "hybrid"
  /\ upd.llm_score = 90
  /\ upd.score = blend(upd.rule_based_score, 90)

\* the positions of a list whose item equals no earlier item, ignoring case
FirstSeen(s) ==
  {i \in 1..Len(s) : \A j \in 1..(i - 1) : Lower(s[j]) # Lower(s[i])}

\* the items at those positions, in their order
KeepFirstSeen(s) ==
  [n \in 1..Cardinality(FirstSeen(s)) |->
     s[CHOOSE i \in FirstSeen(s) :
         Cardinality({j \in FirstSeen(s) : j < i}) = n - 1]]

\* C21: the feedback of a hybrid result is the first three opinion items
\* followed by the first two rule-based items, without the items that equal
\* an earlier item ignoring case, in first-seen order; it has at most 5
\* items and no two of them are equal ignoring case.
C21_HybridFeedback ==
  (Scored /\ ~raised /\ upd.scoring_method = "hybrid") =>
    LET rule_feedback == _calculate_rule_based_ats_score(text).feedback
        combined == Prefix(opinion.feedback, 3) \o Prefix(rule_feedback, 2)
    IN /\ upd.feedback = KeepFirstSeen(combined)
       /\ Len(upd.feedback) <= 5
       /\ \A i, j \in 1..Len(upd.feedback) :
            Lower(upd.feedback[i]) = Lower(upd.feedback[j]) => i = j

\* C21 witness: the opinion lists four items, its second and third differ
\* in case only and its first equals the first rule-based item but for the
\* case; the hybrid feedback keeps the opinion's first two items and the
\* second rule-based item.
C21_Witness ==
  /\ Scored
  /\ ~raised
  /\ upd.scoring_method = "hybrid"
  /\ Len(opinion.feedback) = 4
  /\ Len(_calculate_rule_based_ats_score(text).feedback) >= 2
  /\ Lower(_calculate_rule_based_ats_score(text).feedback[1])
       = Lower(opinion.feedback[1])
  /\ upd.feedback =
       <<opinion.feedback[1], opinion.feedback[2],
         _calculate_rule_based_ats_score(text).feedback[2]>>

\* the records of a changes_made value, in order
ChangeRecords(v) ==
  CASE v \in {Absent, NoneV, "[]"} -> <<>>
    [] v = "[change1]" -> <<"change1">>
    [] v = "[change2, change3]" -> <<"change2", "change3">>

\* C22: changes_made is append-only: across every stage execution and every
\* driver invocation of a session each record keeps its position and the
\* list only grows at its end.
C22_ChangesAppendOnly ==
  [][LET before == ChangeRecords(ckpt["changes_made"])
         after == ChangeRecords(ckpt'["changes_made"])
     IN /\ Len(after) >= Len(before)
        /\ \A i \in 1..Len(before) : after[i] = before[i]]_vars

RuleScored == pc = "scored" /\ fn = "_calculate_rule_based_ats_score"

\* the measures of a text on which the scorer takes a branch other than the
\* one that awards the most
ShortBranches(t) ==
  {m \in {"sections", "email", "phone", "lines", "bullets", "tables",
          "headers", "verbs", "quantified", "words", "vague", "length",
          "encoding", "spacing"} :
     CASE m = "sections" -> t.sections_found # 4
       [] m = "email" -> ~t.email
       [] m = "phone" -> ~t.phone
       [] m = "lines" -> t.total_lines < 15 \/ t.total_lines > 100
       [] m = "bullets" -> t.bullet_count < 8
       [] m = "tables" -> t.tables
       [] m = "headers" -> ~t.headers
       [] m = "verbs" -> t.unique_verbs < 8
       [] m = "quantified" -> t.quantified_count < 6
       [] m = "words" -> t.words < 200
       [] m = "vague" -> t.unprofessional_found > 2
       [] m = "length" -> t.length < 500
       [] m = "encoding" -> t.encoding
       [] m = "spacing" -> t.spacing}

\* the score of a text on which every branch awards the most
HighestRuleScore == 25 + 15 + 15 + 25 + 15

\* C23: the rule-based scorer appends one feedback item in every branch
\* that deducts points or withholds part of an award: the feedback list is
\* empty only if no branch did, no score exceeds the one reached when no
\* branch did, and every text that scores below it has feedback.
C23_DeductionsExplained ==
  RuleScored =>
    /\ Len(upd.feedback) = Cardinality(ShortBranches(text))
    /\ upd.feedback = <<>> => ShortBranches(text) = {}
    /\ upd.score <= HighestRuleScore
    /\ upd.score < HighestRuleScore => upd.feedback # <<>>

\* C23 witness: a text that differs from the best one only by table markup
\* loses 2 points and is told about the tables.
C23_Witness ==
  /\ RuleScored
  /\ text = [ScenarioA EXCEPT !.tables = TRUE]
  /\ upd.score = HighestRuleScore - 2
  /\ upd.feedback = <<"Contains tables - may cause ATS parsing issues">>

\* C24: once error is non-empty in the state of a session it stays
\* non-empty: no step of a stage, of the driver or of a handler clears it,
\* and its value changes only when a stage returns a new error.
C24_ErrorSticky ==
  [][Truthy(ckpt["error"]) =>
       /\ Truthy(ckpt'["error"])
       /\ ckpt'["error"] # ckpt["error"] =>
            /\ Len(ran') = Len(ran) + 1
            /\ upd' = [error |-> ckpt'["error"]]]_vars

\* C24 witness: in a later invocation of a session whose error is set a
\* stage has run and returned a success update, and error is still set.
C24_Witness ==
  /\ invocations >= 2
  /\ fn \in Stages
  /\ ~raised
  /\ SuccessShape(upd, fn)
  /\ Truthy(ckpt["error"])

\* the fixed order of the stages
StageSeq ==
  <<"analyze_resume", "analyze_jd", "match_analysis", "generate_cv",
    "apply_feedback", "final_analysis">>

\* the stages executed so far in the invocation are the first ones of the
\* fixed order, each once
RanIsPrefix ==
  /\ Len(ran) <= Len(StageSeq)
  /\ \A i \in 1..Len(ran) : ran[i] = StageSeq[i]

\* C25: every driver invocation ends at END after at most six stage
\* executions: the executed stages are a prefix of the fixed order, each
\* executed once, and an invocation that has ended has ended at END.
C25_InvocationEndsAtEnd ==
  /\ RanIsPrefix
  /\ Finished => pc = "returned" /\ route = "END"

\* C26: the rule-based score of every text is in 0..100: the five category
\* contributions never sum to a negative number, although the content
\* contribution can be negative, and the score is never above 100.
C26_RuleScoreInRange ==
  RuleScored => upd.score >= 0 /\ upd.score <= 100

\* C26 witness: the text on which every measure is at its worst has a
\* negative content contribution and scores 2.
C26_Witness ==
  /\ RuleScored
  /\ text = WeakText
  /\ text.unprofessional_found > 2
  /\ upd.score = 2

\* C27: client readiness is monotone: a step taken from a state in which
\* is_clients_initialized() holds, be it an initialize_clients call that
\* succeeds or fails or a stage execution, leads to a state in which it
\* holds and in which neither get_client_analyzer nor get_client_generator
\* raises.
C27_ReadinessMonotone ==
  [][is_clients_initialized =>
       /\ is_clients_initialized'
       /\ ~get_analyzer_client_raises'
       /\ ~get_generator_client_raises']_vars

\* C27 witness: after the clients were ready an initialize_clients call for
\* another provider failed at its second constructor (the two clients are
\* of different providers), and a stage of the session has since passed
\* its check and returned a success update.
C27_Witness ==
  /\ is_clients_initialized
  /\ client_analyzer # client_generator
  /\ fn \in Stages
  /\ ~raised
  /\ calls >= 1
  /\ SuccessShape(upd, fn)

\* C28: initialize_clients is all-or-nothing: whenever a call changes the
\* analyzer client, the generator client or the current provider, it
\* leaves both clients built for the provider it records, so a call that
\* fails changes nothing.
C28_InitializeAllOrNothing ==
  [][clientVars' # clientVars =>
       /\ client_analyzer' = current_provider'
       /\ client_generator' = current_provider']_vars

\* C29: when the invocation made by finalize_cv with skip_feedback and the
\* editor text X has run every stage successfully, final_cv is X.
C29_UseAsIsKeepsEditorText ==
  (/\ inv = "finalize_cv"
   /\ pc = "returned"
   /\ ckpt["user_feedback"] = NoneV
   /\ Truthy(page.cv_editor)
   /\ fn = "final_analysis"
   /\ SuccessShape(upd, "final_analysis"))
    => ckpt["final_cv"] = page.cv_editor

\* a start_analysis run of a session that has completed the pipeline before
\* and whose page shows no results: the page was reset in between
AfterReset ==
  /\ inv = "start_analysis"
  /\ ~page.show_analysis_results
  /\ ckpt["final_match_percentage"] # Absent
  /\ Len(ran) < Len(StageSeq)

\* C30: a start_analysis run made after reset_app sees nothing of the
\* previous run: the state holds no user_feedback, the feedback-application
\* stage makes no inference call, and a successful analyze_resume is
\* followed by analyze_jd whatever error the previous run left.
C30_ResetStartsFresh ==
  AfterReset =>
    /\ ~Truthy(ckpt["user_feedback"])
    /\ fn = "apply_feedback" => calls = 0
    /\ (/\ fn = "analyze_resume"
        /\ ~raised
        /\ SuccessShape(upd, "analyze_resume")
        /\ Truthy(ckpt["resume_analysis"])
        /\ is_clients_initialized)
         => route = "analyze_jd"

====
